---- MODULE Spec2Model ----
(***************************************************************************)
(* Conversation state machine of the company research assistant:          *)
(* ResearchAgent.process_message and its handlers (utils/research_agent), *)
(* the session store (utils/session_helpers) and WebScraper.scrape_website *)
(* (utils/web_scraper).  Texts whose wording does not matter are modelled  *)
(* by their length, user messages by their whitespace-separated words.     *)
(* Further specifications cover the adapters on their own                  *)
(* (LLMClient.analyze_company_content, N8NWebhook.send_data), the chat log *)
(* under update_chat, and the langchain agent shared by two conversations. *)
(***************************************************************************)
EXTENDS Integers, Sequences, FiniteSets, TLC

\* Python None for string-valued session fields, and a key missing from a dict.
None == "None"
Absent == "ABSENT"
\* Python None for a text modelled by its length, and for an absent integer.
NoneLen == 0 - 1
NoNumber == 0 - 1

\* ----------------------------------------------------------------------
\* Bounds of the model
\* ----------------------------------------------------------------------
\* longest list of organic results a search answers with
MaxOrganic == 2

\* ----------------------------------------------------------------------
\* Inputs: user messages, intents of the LLM extractor, adapter answers
\* ----------------------------------------------------------------------
URLs == {"https://acme.com", "https://acme.org"}
NoLink == "nolink"

\* A user message is the sequence of its words (message.split()).
Messages ==
    { <<"Acme", "Corp">>,
      <<"a@b.com">>,
      <<"Research", "Acme", "Corp,", "email", "me", "at", "a@b.com">>,
      <<"2">>,
      <<"Start", "over">>,
      <<"please", "use", "number", "1", "of", "the", "list">>,
      <<"which", "industries", "do", "they", "serve", "most", "often?">> }

\* the words the email pattern of _fallback_intent_analysis matches
EmailWords == {"a@b.com"}
\* the words the pattern \b(\d+)\b matches, with int() of the match
NumberWords == {"1", "2"}
IntOf(word) == CASE word = "1" -> 1 [] word = "2" -> 2

\* " ".join(words): the message text with its outer white space stripped
RECURSIVE Join(_)
Join(words) ==
    IF words = <<>> THEN ""
    ELSE IF Len(words) = 1 THEN words[1]
    ELSE words[1] \o " " \o Join(Tail(words))

\* message.strip()
Strip(message) == Join(message)

\* re.search over the message: the first word the pattern matches, or None
RECURSIVE FirstIn(_, _)
FirstIn(words, set) ==
    IF words = <<>> THEN None
    ELSE IF words[1] \in set THEN words[1]
    ELSE FirstIn(Tail(words), set)

IntentActions ==
    { "provide_company_and_email", "provide_company", "provide_email",
      "select_url", "ask_followup", "start_over", "unclear" }

\* An intent is the dict json.loads returns, or the fallback's dict; a key the
\* dict lacks is Absent; dict = FALSE is a JSON value that is not an object.
Intent(action, company, email, url_selection) ==
    [ dict |-> TRUE, action |-> action, company |-> company, email |-> email,
      url_selection |-> url_selection ]

NotADict == [ dict |-> FALSE, action |-> Absent, company |-> Absent,
              email |-> Absent, url_selection |-> NoNumber ]

\* What the chat completion of _analyze_user_intent may produce: a failure
\* (transport error, or text that is not JSON), or a JSON value.  Only the
\* keys a route reads are varied.
LLMIntents ==
    { Intent(a, Absent, Absent, NoNumber) :
        a \in {"select_url", "ask_followup", "start_over", "unclear", Absent} }
    \cup { Intent("provide_company", c, Absent, NoNumber) : c \in {Absent, "Acme Corp"} }
    \cup { Intent("provide_email", Absent, e, NoNumber) : e \in {Absent, "a@b.com"} }
    \cup { Intent("provide_company_and_email", "Acme Corp", "a@b.com", NoNumber),
           Intent("provide_company_and_email", "Acme Corp", Absent, NoNumber) }
    \cup {NotADict}
LLMFailed == [failed |-> TRUE, value |-> NotADict]
LLMOutcomes == {LLMFailed} \cup { [failed |-> FALSE, value |-> i] : i \in LLMIntents }

\* ----------------------------------------------------------------------
\* Session store (st.session_state) and agent states
\* ----------------------------------------------------------------------
STATES ==
    [ INITIAL |-> "initial",
      AWAITING_COMPANY |-> "awaiting_company",
      AWAITING_EMAIL |-> "awaiting_email",
      SEARCHING_URLS |-> "searching_urls",
      AWAITING_URL_SELECTION |-> "awaiting_url_selection",
      SCRAPING_WEBSITE |-> "scraping_website",
      ANALYZING_CONTENT |-> "analyzing_content",
      ANSWERING_FOLLOWUP |-> "answering_followup",
      UPDATING_AIRTABLE |-> "updating_airtable",
      SENDING_EMAIL |-> "sending_email",
      COMPLETE |-> "complete" ]

Greeting == [role |-> "assistant", content |-> "greeting"]

session_defaults ==
    [ company_name |-> None,
      user_email |-> None,
      confirmed_url |-> None,
      candidate_urls |-> <<>>,
      scraped_content |-> NoneLen,
      what_they_sell |-> None,
      who_they_sell_to |-> None,
      airtable_record_id |-> None,
      agent_state |-> "initial",
      current_status |-> None ]

\* A world is the session together with the adapter calls made so far in the
\* turn being processed.
World(st, chat, calls) == [st |-> st, chat |-> chat, calls |-> calls]

update_session_state(w, key, value) == [w EXCEPT !.st[key] = value]

\* an adapter call: its operation, its main argument and the length of the text
\* handed over (NoneLen when no text is)
Called(w, op, arg, len) ==
    [w EXCEPT !.calls = Append(@, [op |-> op, arg |-> arg, len |-> len])]

\* st.session_state is a mapping from the keys it holds to their values;
\* a session nothing was stored in holds no key.
EmptySession == <<>>

\* every key of session_defaults the session lacks gets its default
init_session(st) ==
    [ key \in DOMAIN st \cup DOMAIN session_defaults |->
        IF key \in DOMAIN st THEN st[key] ELSE session_defaults[key] ]

session_keys ==
    { "company_name", "user_email", "confirmed_url", "candidate_urls",
      "scraped_content", "what_they_sell", "who_they_sell_to",
      "airtable_record_id", "agent_state", "current_status" }

\* {key: st.session_state.get(key) for key in session_keys}; the None of a
\* text's length is NoneLen
get_session_state(st) ==
    [ key \in session_keys |->
        IF key \in DOMAIN st THEN st[key]
        ELSE IF key = "scraped_content" THEN NoneLen ELSE None ]

\* reset_session with airtable_record_id missing from reset_keys
reset_session_partial(w) ==
    [w EXCEPT !.chat = <<Greeting>>,
              !.st = [@ EXCEPT !.company_name = None,
                               !.user_email = None,
                               !.confirmed_url = None,
                               !.candidate_urls = <<>>,
                               !.scraped_content = NoneLen,
                               !.what_they_sell = None,
                               !.who_they_sell_to = None,
                               !.current_status = None,
                               !.agent_state = "initial"]]

\* chat_history is set back to the greeting, every key of reset_keys to None
\* (candidate_urls to []), agent_state to "initial"
reset_session(w) ==
    [w EXCEPT !.chat = <<Greeting>>,
              !.st = [@ EXCEPT !.company_name = None,
                               !.user_email = None,
                               !.confirmed_url = None,
                               !.candidate_urls = <<>>,
                               !.scraped_content = NoneLen,
                               !.what_they_sell = None,
                               !.who_they_sell_to = None,
                               !.airtable_record_id = None,
                               !.current_status = None,
                               !.agent_state = "initial"]]

\* A handler's outcome: the world it leaves, and its reply or the exception
\* that leaves it.
Text(id) == [type |-> "text", text |-> id, urls |-> <<>>, analysis |-> <<>>]
Dict(id, urls) == [type |-> "dict", text |-> id, urls |-> urls, analysis |-> <<>>]
NoReply == [type |-> "none", text |-> "", urls |-> <<>>, analysis |-> <<>>]
\* a text reply that quotes the summarizer's completion
Quoting(id, analysis) == [Text(id) EXCEPT !.analysis = analysis]
Return(w, reply) == [w |-> w, reply |-> reply, exc |-> FALSE]
Raise(w) == [w |-> w, reply |-> NoReply, exc |-> TRUE]

Min(a, b) == IF a <= b THEN a ELSE b
\* text[:limit] of a text of the given length
Prefix(len, limit) == Min(len, limit)
\* Python truthiness of a text modelled by its length (None and "" are falsy)
Truthy(len) == len > 0

\* ----------------------------------------------------------------------
\* Intent extraction
\* ----------------------------------------------------------------------
_fallback_intent_analysis(message, current_state) ==
    LET email_match == FirstIn(message, EmailWords)
        intent0 == Intent("unclear", Absent, Absent, NoNumber)
        intent1 == IF email_match # None
                   THEN [intent0 EXCEPT !.email = email_match,
                                        !.action = "provide_email"]
                   ELSE intent0
        number_match == FirstIn(message, NumberWords)
        intent2 == IF current_state = STATES.AWAITING_URL_SELECTION
                      /\ number_match # None
                   THEN [intent1 EXCEPT !.action = "select_url",
                                        !.url_selection = IntOf(number_match)]
                   ELSE intent1
        intent3 == IF intent2.email \in {Absent, None, ""} /\ Len(message) <= 5
                   THEN [intent2 EXCEPT !.company = Strip(message),
                                        !.action = "provide_company"]
                   ELSE intent2
    IN  intent3

_analyze_user_intent(message, current_state, llm) ==
    IF llm.failed
    THEN _fallback_intent_analysis(message, current_state)
    ELSE llm.value

\* ----------------------------------------------------------------------
\* WebSearch (Serper), as _search_company_urls calls it
\* ----------------------------------------------------------------------
SearchLimit == 5

RECURSIVE SeqsUpTo(_, _)
SeqsUpTo(S, n) ==
    IF n = 0 THEN {<<>>}
    ELSE LET shorter == SeqsUpTo(S, n - 1)
         IN  shorter \cup { Append(q, x) : q \in shorter, x \in S }

\* requests.post / raise_for_status / response.json(): an exception, or the
\* list under 'organic', each entry a link or an entry without 'link'
SearchOutcomes ==
    {[raised |-> TRUE, organic |-> <<>>]}
    \cup { [raised |-> FALSE, organic |-> o] :
             o \in SeqsUpTo(URLs \cup {NoLink}, MaxOrganic) }

\* the links of a list of organic results
RECURSIVE Links(_)
Links(organic) ==
    IF organic = <<>> THEN <<>>
    ELSE IF organic[1] = NoLink THEN Links(Tail(organic))
    ELSE <<organic[1]>> \o Links(Tail(organic))

\* what the search gives _search_company_urls to work on: an exception, or
\* the links of results.get('organic', [])[:5]
SearchResults ==
    { [raised |-> o.raised,
       urls |-> Links(SubSeq(o.organic, 1, Min(Len(o.organic), SearchLimit)))]
      : o \in SearchOutcomes }

\* _search_company_urls without its "if not urls" return
_search_company_urls_unchecked(w, company) ==
    LET w1 == Called(update_session_state(w, "current_status", "searching"),
                     "search", company, NoneLen)
    IN  { IF o.raised
          THEN Return(update_session_state(w1, "current_status", "search_failed"),
                      Text("search_error"))
          ELSE LET urls == o.urls
               IN  Return(
                     update_session_state(
                       update_session_state(
                         update_session_state(w1, "candidate_urls", urls),
                         "agent_state", STATES.AWAITING_URL_SELECTION),
                       "current_status", "found_candidate_urls"),
                     Dict("select_by_number", urls))
        : o \in SearchResults }

_search_company_urls(w, company) ==
    LET w1 == Called(update_session_state(w, "current_status", "searching"),
                     "search", company, NoneLen)
    IN  { IF o.raised
          THEN Return(update_session_state(w1, "current_status", "search_failed"),
                      Text("search_error"))
          ELSE LET urls == o.urls
               IN  IF urls = <<>>
                   THEN Return(update_session_state(w1, "current_status", "no_urls_found"),
                               Text("no_websites_try_different_company"))
                   ELSE Return(
                          update_session_state(
                            update_session_state(
                              update_session_state(w1, "candidate_urls", urls),
                              "agent_state", STATES.AWAITING_URL_SELECTION),
                            "current_status", "found_candidate_urls"),
                          Dict("select_by_number", urls))
        : o \in SearchResults }

\* ----------------------------------------------------------------------
\* ContentScraper (FireCrawl): WebScraper.scrape_website
\* ----------------------------------------------------------------------
max_pages == 15

\* lengths of the markdown a page may carry
MarkdownLens == {0, 8}

\* A crawled page has its 'url' (Absent when missing), the length of its
\* 'markdown' ('' when missing, NoneLen when the JSON value is null) and
\* whether markdown.strip() is empty.
\* what _crawl_website gives back: None, or the list of pages of the job
CrawlOutcomes ==
    {[none |-> TRUE, data |-> <<>>]}
    \cup { [none |-> FALSE, data |-> d] :
             d \in { <<>>,
                     <<[url |-> Absent, markdown |-> 0, blank |-> TRUE]>>,
                     <<[url |-> Absent, markdown |-> 2, blank |-> TRUE],
                       [url |-> "https://acme.com/about", markdown |-> 60000,
                        blank |-> FALSE]>>,
                     <<[url |-> Absent, markdown |-> NoneLen, blank |-> FALSE]>> } }

\* what the scrape endpoint gives back to _scrape_single_page: a failure
\* (exception, status other than 200, no success flag, no data), or markdown
SingleOutcomes ==
    {[failed |-> TRUE, markdown |-> 0]}
    \cup { [failed |-> FALSE, markdown |-> n] : n \in MarkdownLens }

Digits(n) == IF n < 10 THEN 1 ELSE 2

_scrape_single_page(url, single) ==
    IF ~single.failed /\ Truthy(single.markdown)
    THEN Len("=== PAGE: ") + Len(url) + Len(" ===") + 2 + single.markdown
    ELSE NoneLen

\* lengths of the sections f"{header}\n\n{page_content}" of the pages whose
\* content is not blank; i is the page's index in crawl_result[:max_pages]
RECURSIVE combined_content(_, _, _)
combined_content(pages, i, url) ==
    IF i > Len(pages) THEN <<>>
    ELSE LET page_url == IF pages[i].url = Absent THEN url ELSE pages[i].url
             header == Len("=== PAGE ") + Digits(i) + Len(": ") + Len(page_url)
                       + Len(" ===")
             rest == combined_content(pages, i + 1, url)
         IN  IF ~pages[i].blank
             THEN <<header + 2 + pages[i].markdown>> \o rest
             ELSE rest

\* length of separator.join(parts)
RECURSIVE JoinLen(_, _)
JoinLen(parts, separator) ==
    IF parts = <<>> THEN 0
    ELSE IF Len(parts) = 1 THEN parts[1]
    ELSE parts[1] + separator + JoinLen(Tail(parts), separator)

\* page_content.strip() raises for a page whose markdown is None
StripRaises(pages) == \E i \in 1..Len(pages) : pages[i].markdown = NoneLen

\* the except clause of scrape_website turns the exception into None
scrape_website(url, crawl, single) ==
    LET pages == SubSeq(crawl.data, 1, Min(Len(crawl.data), max_pages))
        parts == combined_content(pages, 1, url)
    IN  IF ~crawl.none /\ Len(crawl.data) > 0 /\ StripRaises(pages)
        THEN NoneLen
        ELSE IF ~crawl.none /\ Len(crawl.data) > 0 /\ parts # <<>>
        THEN JoinLen(parts, 2 + Len("---PAGE BREAK---") + 2)
        ELSE _scrape_single_page(url, single)

\* every result the scraper can give for the url
ScrapeResults(url) ==
    { scrape_website(url, crawl, single) :
        crawl \in CrawlOutcomes, single \in SingleOutcomes }

\* ----------------------------------------------------------------------
\* Result Sink: ResearchAgent._finalize_research
\* ----------------------------------------------------------------------
AnalysisLimit == 15000
FollowupLimit == 10000
SinkLimit == 50000

\* airtable_manager and email_sender are collaborators the agent is built with;
\* only their calls are part of research_agent.py.
\* airtable_manager.create_record: raises, or returns a record id or None
CreateOutcomes == {"raised", None, "rec1"}
\* email_sender.send_research_summary: raises or returns
SendOutcomes == {"raised", "sent"}

\* _finalize_research without its "if record_id" test
_finalize_research_unchecked(w) ==
    LET session_data == w.st
        failed(x) == update_session_state(x, "current_status", "error_in_final_steps")
    IN  IF session_data.scraped_content = NoneLen
        THEN {failed(w)}
        ELSE LET w1 == Called(w, "create_record", session_data.company_name,
                              Prefix(session_data.scraped_content, SinkLimit))
             IN  UNION {
                   IF record_id = "raised" THEN {failed(w1)}
                   ELSE LET w2 == Called(
                                    update_session_state(w1, "airtable_record_id", record_id),
                                    "send_email", session_data.user_email, NoneLen)
                        IN  { IF sent = "raised" THEN failed(w2) ELSE w2
                              : sent \in SendOutcomes }
                   : record_id \in CreateOutcomes }

_finalize_research(w) ==
    LET session_data == w.st
        failed(x) == update_session_state(x, "current_status", "error_in_final_steps")
    IN  IF session_data.scraped_content = NoneLen
        THEN {failed(w)}
        ELSE LET w1 == Called(w, "create_record", session_data.company_name,
                              Prefix(session_data.scraped_content, SinkLimit))
             IN  UNION {
                   IF record_id = "raised" THEN {failed(w1)}
                   ELSE IF record_id = None THEN {w1}
                   ELSE LET w2 == Called(
                                    update_session_state(w1, "airtable_record_id", record_id),
                                    "send_email", session_data.user_email, NoneLen)
                        IN  { IF sent = "raised" THEN failed(w2) ELSE w2
                              : sent \in SendOutcomes }
                   : record_id \in CreateOutcomes }

\* ----------------------------------------------------------------------
\* Summarizer, as _analyze_content and _handle_followup_question call it
\* ----------------------------------------------------------------------
\* The completion text cut at "## ": each section with the header it starts
\* with ("" for none of the two) and what is left of it after the header is
\* removed and the rest stripped.
AnalysisTexts ==
    { <<[head |-> "", body |-> "plain prose"]>>,
      <<[head |-> "", body |-> ""],
        [head |-> "What They Sell", body |-> "products"],
        [head |-> "Who They Sell To", body |-> "customers"]>>,
      <<[head |-> "", body |-> "intro"],
        [head |-> "What They Sell", body |-> ""]>> }

AnalysisOutcomes ==
    {[raised |-> TRUE, sections |-> <<>>]}
    \cup { [raised |-> FALSE, sections |-> a] : a \in AnalysisTexts }

\* the last section that starts with the header, stripped; "" when none does
RECURSIVE SectionOf(_, _, _)
SectionOf(sections, header, found) ==
    IF sections = <<>> THEN found
    ELSE SectionOf(Tail(sections), header,
                   IF sections[1].head = header THEN sections[1].body ELSE found)

_analyze_content(w, content) ==
    LET w1 == update_session_state(w, "current_status", "analyzing")
        company == w1.st.company_name
        w2 == Called(w1, "analyze", company, Prefix(content, AnalysisLimit))
    IN  UNION {
          IF o.raised
          THEN { Return(update_session_state(w2, "current_status", "analysis_error"),
                        Text("error_analyzing_content")) }
          ELSE LET what_they_sell == SectionOf(o.sections, "What They Sell", "")
                   who_they_sell_to == SectionOf(o.sections, "Who They Sell To", "")
                   w3 == update_session_state(
                           update_session_state(
                             update_session_state(
                               update_session_state(w2, "what_they_sell", what_they_sell),
                               "who_they_sell_to", who_they_sell_to),
                             "agent_state", STATES.ANSWERING_FOLLOWUP),
                           "current_status", "analysis_complete")
               IN  { Return(w4, Quoting("research_complete_saved_and_emailed",
                                        o.sections))
                     : w4 \in _finalize_research(w3) }
          : o \in AnalysisOutcomes }

\* _scrape_website without its "if not scraped_content" return
_scrape_website_unchecked(w, url) ==
    LET w1 == Called(update_session_state(w, "current_status", "scraping"),
                     "scrape", url, NoneLen)
    IN  UNION {
          _analyze_content(
            update_session_state(
              update_session_state(w1, "scraped_content", scraped_content),
              "agent_state", STATES.ANALYZING_CONTENT),
            scraped_content)
          : scraped_content \in ScrapeResults(url) }

_scrape_website(w, url) ==
    LET w1 == Called(update_session_state(w, "current_status", "scraping"),
                     "scrape", url, NoneLen)
    IN  UNION {
          IF ~Truthy(scraped_content)
          THEN { Return(update_session_state(w1, "current_status", "scraping_failed"),
                        Text("could_not_scrape_select_different_url")) }
          ELSE _analyze_content(
                 update_session_state(
                   update_session_state(w1, "scraped_content", scraped_content),
                   "agent_state", STATES.ANALYZING_CONTENT),
                 scraped_content)
          : scraped_content \in ScrapeResults(url) }

\* ----------------------------------------------------------------------
\* Handlers of ResearchAgent
\* ----------------------------------------------------------------------
Has(value) == value \notin {Absent, None, ""}

_handle_initial_request(w, message, intent) ==
    IF Has(intent.company) /\ Has(intent.email)
    THEN _search_company_urls(
           update_session_state(
             update_session_state(
               update_session_state(w, "company_name", intent.company),
               "user_email", intent.email),
             "agent_state", STATES.SEARCHING_URLS),
           intent.company)
    ELSE {Return(w, Text("hello_tell_me_company_and_email"))}

\* _handle_company_name moving to a state of its own
_handle_company_name_awaiting_company(w, company) ==
    { Return(update_session_state(
               update_session_state(w, "company_name", company),
               "agent_state", STATES.AWAITING_COMPANY),
             Text("what_email_address")) }

_handle_company_name(w, company) ==
    { Return(update_session_state(
               update_session_state(w, "company_name", company),
               "agent_state", STATES.AWAITING_EMAIL),
             Text("what_email_address")) }

_handle_email_address(w, email) ==
    LET w1 == update_session_state(
                update_session_state(w, "user_email", email),
                "agent_state", STATES.SEARCHING_URLS)
        company == w1.st.company_name
    IN  _search_company_urls(w1, company)

\* _handle_url_selection with the move to scraping_website made before the
\* number is looked at
_handle_url_selection_eager(w, message) ==
    LET session_data == w.st
        urls == session_data.candidate_urls
        number_match == FirstIn(message, NumberWords)
        w1 == update_session_state(w, "agent_state", STATES.SCRAPING_WEBSITE)
    IN  IF number_match = None
        THEN {Return(w1, Text("provide_the_number_of_the_url"))}
        ELSE LET selection == IntOf(number_match)
             IN  IF selection < 1 \/ selection > Len(urls)
                 THEN {Return(w1, Text("choose_a_number_in_range"))}
                 ELSE LET selected_url == urls[selection]
                      IN  _scrape_website(
                            update_session_state(w1, "confirmed_url", selected_url),
                            selected_url)

_handle_url_selection(w, message) ==
    LET session_data == w.st
        urls == session_data.candidate_urls
        number_match == FirstIn(message, NumberWords)
    IN  IF number_match = None
        THEN {Return(w, Text("provide_the_number_of_the_url"))}
        ELSE LET selection == IntOf(number_match)
             IN  IF selection < 1 \/ selection > Len(urls)
                 THEN {Return(w, Text("choose_a_number_in_range"))}
                 ELSE LET selected_url == urls[selection]
                      IN  _scrape_website(
                            update_session_state(
                              update_session_state(w, "confirmed_url", selected_url),
                              "agent_state", STATES.SCRAPING_WEBSITE),
                            selected_url)

\* the completion of the follow-up prompt: an answer or an exception
AnswerOutcomes == {"raised", "answered"}

\* _handle_followup_question with the whole content in the prompt
_handle_followup_question_whole(w, question) ==
    LET session_data == w.st
    IN  IF ~Truthy(session_data.scraped_content)
        THEN {Return(w, Text("no_research_data"))}
        ELSE LET w1 == Called(w, "answer", session_data.company_name,
                              session_data.scraped_content)
             IN  { IF o = "raised" THEN Return(w1, Text("error_answering"))
                   ELSE Return(w1, Text("answer"))
                   : o \in AnswerOutcomes }

_handle_followup_question(w, question) ==
    LET session_data == w.st
    IN  IF ~Truthy(session_data.scraped_content)
        THEN {Return(w, Text("no_research_data"))}
        ELSE LET w1 == Called(w, "answer", session_data.company_name,
                              Prefix(session_data.scraped_content, FollowupLimit))
             IN  { IF o = "raised" THEN Return(w1, Text("error_answering"))
                   ELSE Return(w1, Text("answer"))
                   : o \in AnswerOutcomes }

_reset_session(w) == {Return(reset_session(w), Text("session_reset"))}

_handle_unclear_input(w, message, current_state) ==
    IF current_state = STATES.AWAITING_EMAIL
    THEN {Return(w, Text("need_your_email"))}
    ELSE IF current_state = STATES.AWAITING_URL_SELECTION
    THEN {Return(w, Text("select_url_by_number"))}
    ELSE IF current_state = STATES.AWAITING_COMPANY
    THEN {Return(w, Text("tell_me_which_company"))}
    ELSE {Return(w, Text("not_sure_what_you_mean"))}

\* the body of the try block of process_message
Route(w, user_message, intent, current_state) ==
    IF ~intent.dict \/ intent.action = Absent THEN {Raise(w)}
    ELSE IF intent.action = "provide_company_and_email"
    THEN _handle_initial_request(w, user_message, intent)
    ELSE IF intent.action = "provide_company"
    THEN IF intent.company = Absent THEN {Raise(w)}
         ELSE _handle_company_name(w, intent.company)
    ELSE IF intent.action = "provide_email"
    THEN IF intent.email = Absent THEN {Raise(w)}
         ELSE _handle_email_address(w, intent.email)
    ELSE IF intent.action = "select_url"
    THEN _handle_url_selection(w, user_message)
    ELSE IF intent.action = "ask_followup"
    THEN _handle_followup_question(w, user_message)
    ELSE IF intent.action = "start_over"
    THEN _reset_session(w)
    ELSE _handle_unclear_input(w, user_message, current_state)

\* process_message without its try/except
process_message_uncaught(w, user_message, llm) ==
    LET session_data == w.st
        current_state == session_data.agent_state
        intent == _analyze_user_intent(user_message, current_state, llm)
    IN  Route(w, user_message, intent, current_state)

process_message(w, user_message, llm) ==
    LET session_data == w.st
        current_state == session_data.agent_state
        intent == _analyze_user_intent(user_message, current_state, llm)
    IN  { IF r.exc
          THEN Return(update_session_state(r.w, "current_status", "error"),
                      Text("encountered_an_error"))
          ELSE r
          : r \in Route(w, user_message, intent, current_state) }

\* ----------------------------------------------------------------------
\* LLMClient.analyze_company_content (utils/llm_client)
\* ----------------------------------------------------------------------
\* A completion is the sequence of its lines (text.split('\n')), and a line
\* is what the two parsers can tell of it: a brace on its own, one member of
\* a JSON object ("key": "text"), a line of prose that holds the keyword of a
\* section, any other prose, a blank line, or a JSON number.
AnalysisKeys == {"what_they_sell", "who_they_target", "condensed_summary"}
OpenBrace == [kind |-> "{", key |-> "", text |-> ""]
CloseBrace == [kind |-> "}", key |-> "", text |-> ""]
Member(key, text) == [kind |-> "member", key |-> key, text |-> text]
Keyword(key) == [kind |-> "keyword", key |-> key, text |-> ""]
Prose(text) == [kind |-> "prose", key |-> "", text |-> text]
Blank == [kind |-> "blank", key |-> "", text |-> ""]
Number == [kind |-> "number", key |-> "", text |-> "42"]

\* what generate_response returns once every provider has failed
Apology == <<Prose("I apologize, but I'm having trouble generating a response right now. Please try again.")>>

\* longest keyword-headed or plain completion, in lines
MaxLines == 3

\* the JSON objects over the three keys, each key missing, "" or a text
JsonObjects ==
    { <<OpenBrace>>
        \o (IF f["what_they_sell"] = Absent THEN <<>>
            ELSE <<Member("what_they_sell", f["what_they_sell"])>>)
        \o (IF f["who_they_target"] = Absent THEN <<>>
            ELSE <<Member("who_they_target", f["who_they_target"])>>)
        \o (IF f["condensed_summary"] = Absent THEN <<>>
            ELSE <<Member("condensed_summary", f["condensed_summary"])>>)
        \o <<CloseBrace>>
      : f \in [AnalysisKeys -> {Absent, "", "text"}] }

\* The completions: JSON objects, a JSON value that is no object, a JSON
\* object after a line of prose, prose with and without keywords, and the
\* apology of a failed provider.
Responses ==
    JsonObjects
    \cup {<<Number>>}
    \cup { <<Prose("Here is the analysis:")>> \o o : o \in JsonObjects }
    \cup (SeqsUpTo({Keyword(k) : k \in AnalysisKeys} \cup {Prose("text"), Blank},
                   MaxLines) \ {<<>>})
    \cup {Apology}

\* what analyze_company_content returns: the type of the value and, for a
\* dict, the value under each key (Absent for a key the dict lacks)
Analysis(type, what_they_sell, who_they_target, condensed_summary) ==
    [ type |-> type, what_they_sell |-> what_they_sell,
      who_they_target |-> who_they_target,
      condensed_summary |-> condensed_summary ]

\* json.loads accepts the completion: one JSON number, or an object
IsJson(response) ==
    \/ response = <<Number>>
    \/ /\ Len(response) >= 2
       /\ response[1] = OpenBrace
       /\ response[Len(response)] = CloseBrace
       /\ \A i \in 2..(Len(response) - 1) : response[i].kind = "member"

\* the value of the key in the object, the last member winning
RECURSIVE ValueOf(_, _, _)
ValueOf(response, key, found) ==
    IF response = <<>> THEN found
    ELSE ValueOf(Tail(response), key,
                 IF response[1].kind = "member" /\ response[1].key = key
                 THEN response[1].text ELSE found)

json_loads(response) ==
    IF response = <<Number>> THEN Analysis("int", Absent, Absent, Absent)
    ELSE Analysis("dict", ValueOf(response, "what_they_sell", Absent),
                  ValueOf(response, "who_they_target", Absent),
                  ValueOf(response, "condensed_summary", Absent))

\* the section whose keyword the line holds, None when it holds none
SectionKeyword(line) ==
    IF line.kind \in {"member", "keyword"}
    THEN CASE line.key = "what_they_sell" -> "sell"
           [] line.key = "who_they_target" -> "target"
           [] line.key = "condensed_summary" -> "summary"
    ELSE None

\* the loop of _parse_text_analysis: acc holds the three texts gathered so far
RECURSIVE ParseLines(_, _, _)
ParseLines(lines, current_section, acc) ==
    IF lines = <<>> THEN acc
    ELSE LET line == lines[1]
         IN  IF SectionKeyword(line) # None
             THEN ParseLines(Tail(lines), SectionKeyword(line), acc)
             ELSE IF line.kind \notin {"blank", "{", "}"} /\ current_section # None
             THEN ParseLines(Tail(lines), current_section,
                             [acc EXCEPT ![current_section] = @ \o line.text \o " "])
             ELSE ParseLines(Tail(lines), current_section, acc)

\* x.strip() or default, for a text gathered by the loop (no inner run of
\* blanks at its end but the one the loop appended)
StripOr(x, default) == IF x = "" THEN default ELSE SubSeq(x, 1, Len(x) - 1)

_parse_text_analysis(text) ==
    LET acc == ParseLines(text, None, [sell |-> "", target |-> "", summary |-> ""])
    IN  Analysis("dict",
          StripOr(acc.sell, "Unable to determine products/services from available content"),
          StripOr(acc.target, "Unable to determine target audience from available content"),
          StripOr(acc.summary, "Research completed for company analysis"))

analyze_company_content(response) ==
    IF IsJson(response) THEN json_loads(response)
    ELSE _parse_text_analysis(response)

\* ----------------------------------------------------------------------
\* N8NWebhook.send_data (utils/n8n_webhook)
\* ----------------------------------------------------------------------
WebhookURLs == {None, "https://n8n.example/webhook"}
StatusCodes == {200, 201, 202, 204, 301, 400, 401, 404, 429, 500, 503}

\* requests.post: one of the exceptions the method tells apart, or a response
PostOutcomes ==
    { [raises |-> e, status_code |-> 0]
        : e \in {"Timeout", "RequestException", "Exception"} }
    \cup { [raises |-> None, status_code |-> c] : c \in StatusCodes }

\* the value returned, whether an exception left the method, and the number
\* of requests sent
send_data(webhook_url, post) ==
    IF webhook_url = None
    THEN [value |-> FALSE, raised |-> FALSE, posts |-> 0]
    ELSE IF post.raises # None
    THEN [value |-> FALSE, raised |-> FALSE, posts |-> 1]
    ELSE IF post.status_code = 200
    THEN [value |-> TRUE, raised |-> FALSE, posts |-> 1]
    ELSE [value |-> FALSE, raised |-> FALSE, posts |-> 1]

\* ----------------------------------------------------------------------
\* The one-shot page (streamlit_app): the "Analyze Website" button
\* ----------------------------------------------------------------------
\* the text inputs: empty or filled in
CompanyInputs == {"", "Tesla"}
EmailInputs == {"", "you@example.com"}
\* find_company_website: the first organic link, or None (no result, or an
\* exception, which it catches)
WebsiteOutcomes == {None} \cup URLs
\* crawl_website: data["data"]["markdown"], or None after an exception
ContentOutcomes == {NoneLen, 0, 1200}
\* analyze_with_openai: what json.loads gave (an object with the fields, or
\* an empty object) or the dict it builds itself after a failure
OneShotAnalyses == {"object", "empty_object", "fallback_dict"}
\* requests.post of send_to_airtable: raise_for_status passes, or the post or
\* raise_for_status raises
AirtablePosts == {p \in PostOutcomes : p.status_code \in {0, 200, 404}}
\* sg.send: a status in 200..299, another status, or an exception
SendGridOutcomes == {"2xx", "other_status", "raised"}

\* the positional arguments a call of send_to_airtable binds: scraped_content,
\* what_they_sell, who_they_target, condensed_summary
send_to_airtable_parameters ==
    <<"scraped_content", "what_they_sell", "who_they_target", "condensed_summary">>

\* calling send_to_airtable with the given positional arguments: a call that
\* does not bind every parameter raises TypeError before the body runs; the
\* body posts once and catches what the post raises
send_to_airtable(arguments, post) ==
    IF Len(arguments) # Len(send_to_airtable_parameters)
    THEN [raised |-> TRUE, posts |-> 0]
    ELSE [raised |-> FALSE, posts |-> 1]

\* send_email_via_sendgrid: True for a 2xx status, False otherwise
send_email_via_sendgrid(sent) == sent = "2xx"

\* The body of "if st.button(...) and company_name and user_email": the
\* requests made, in order, and whether an exception left the script run.
analyze_website(clicked, company_name, user_email, website_url, content, analysis, post, sent) ==
    LET Done(steps) == [steps |-> steps, raised |-> FALSE, email_sent |-> FALSE]
        searched == <<"search">>
        crawled == searched \o <<"scrape">>
        analysed == crawled \o <<"completion">>
    IN  IF ~clicked \/ company_name = "" \/ user_email = ""
        THEN Done(<<>>)
        ELSE IF website_url = None THEN Done(searched)
        ELSE IF ~Truthy(content) THEN Done(crawled)
        ELSE IF analysis = "empty_object" THEN Done(analysed)
        ELSE LET saved == send_to_airtable(<<"record">>, post)
                 posted == IF saved.posts > 0 THEN analysed \o <<"airtable_post">>
                           ELSE analysed
             IN  IF saved.raised
                 THEN [steps |-> posted, raised |-> TRUE, email_sent |-> FALSE]
                 ELSE [steps |-> posted \o <<"send_email">>, raised |-> FALSE,
                       email_sent |-> send_email_via_sendgrid(sent)]

\* ----------------------------------------------------------------------
\* Provider loops: SearchAPI.search and LLMClient.generate_response
\* ----------------------------------------------------------------------
\* self.providers as __init__ builds it
SearchProviders == {<<"serper">>}
LLMProviders == {<<"openai">>}
num_results == 10

\* what a method returns, or that an exception left it
Returned(value) == [value |-> value, raised |-> FALSE]
Raised(value) == [value |-> value, raised |-> TRUE]

\* _search_serper: raise_for_status or the request raises, or the first
\* num_results organic items become results, 'url' being '' without a link
RECURSIVE SerperResults(_)
SerperResults(organic) ==
    IF organic = <<>> THEN <<>>
    ELSE <<[url |-> IF organic[1] = NoLink THEN "" ELSE organic[1]]>>
         \o SerperResults(Tail(organic))

_search_serper(o) ==
    IF o.raised THEN Raised(<<>>)
    ELSE Returned(SerperResults(SubSeq(o.organic, 1, Min(Len(o.organic), num_results))))

\* the loop of search with the try statement left out
RECURSIVE search_unguarded(_, _)
search_unguarded(providers, o) ==
    IF providers = <<>> THEN Returned(<<>>)
    ELSE IF providers[1] = "serper"
    THEN LET results == _search_serper(o)
         IN  IF results.raised THEN results
             ELSE IF results.value # <<>> THEN results
             ELSE search_unguarded(Tail(providers), o)
    ELSE search_unguarded(Tail(providers), o)

RECURSIVE search(_, _)
search(providers, o) ==
    IF providers = <<>> THEN Returned(<<>>)
    ELSE IF providers[1] = "serper"
    THEN LET results == _search_serper(o)
         IN  IF ~results.raised /\ results.value # <<>> THEN results
             ELSE search(Tail(providers), o)
    ELSE search(Tail(providers), o)

\* _generate_openai: the request or the look-up in its answer raises, or the
\* content of the first choice, which may be empty
CompletionOutcomes ==
    { Raised(""), Returned(""), Returned("completion") }

RECURSIVE generate_response(_, _)
generate_response(providers, o) ==
    IF providers = <<>> THEN Returned(Apology[1].text)
    ELSE IF providers[1] = "openai"
    THEN IF ~o.raised /\ o.value # "" THEN o
         ELSE generate_response(Tail(providers), o)
    ELSE generate_response(Tail(providers), o)

\* ----------------------------------------------------------------------
\* The langchain agent (utils/langchain_agent)
\* ----------------------------------------------------------------------
\* the module's dict session_state, as the import leaves it
lc_session_defaults ==
    [ company_name |-> None, user_email |-> None, confirmed_url |-> None,
      candidate_urls |-> <<>> ]
LcFields == {"company_name", "user_email", "confirmed_url", "candidate_urls"}

\* most tool calls agent.run makes for one message
MaxToolCalls == 2

\* "@" in user_message and "." in user_message
HasAtAndDot(user_message) ==
    \E i \in 1..Len(user_message) : user_message[i] \in EmailWords

\* extract_company_name: the ORG entities the classifier finds, in the
\* arbitrary order of list(set(orgs))
extract_company_name(text) ==
    IF \E i \in 1..Len(text) : text[i] = "Acme"
    THEN {<<>>, <<"Acme Corp">>} ELSE {<<>>}

\* What a call leaves: the dict, the keys of it the call read and wrote, and
\* whether reset_session of utils/session_helpers was called.
LcResult(st, read, wrote, reset) ==
    [st |-> st, read |-> read, wrote |-> wrote, reset |-> reset]

\* search_company_sites: the links of the first five organic results are
\* stored, also when there are none
search_company_sites(st) ==
    { LcResult([st EXCEPT !.candidate_urls =
                             SubSeq(o, 1, Min(Len(o), SearchLimit))],
               {}, {"candidate_urls"}, FALSE)
      : o \in SeqsUpTo(URLs, MaxOrganic) }

\* select_url: selection is int() of the first run of digits, NoNumber
\* when the text has none
select_url(st, selection) ==
    IF selection # NoNumber
    THEN IF 0 <= selection - 1 /\ selection - 1 < Len(st.candidate_urls)
         THEN LcResult([st EXCEPT !.confirmed_url = st.candidate_urls[selection]],
                       {"candidate_urls"}, {"confirmed_url"}, FALSE)
         ELSE LcResult(st, {"candidate_urls"}, {}, FALSE)
    ELSE LcResult(st, {}, {}, FALSE)

lc_scrape_website(st) == LcResult(st, {"confirmed_url"}, {}, FALSE)

analyze_content(st) == LcResult(st, {}, {}, FALSE)

\* send_to_n8n: reset_session() is that of the session helpers; the dict of
\* this module is left as it is
send_to_n8n(st) ==
    IF st.user_email = None \/ st.company_name = None
    THEN LcResult(st, {"user_email", "company_name"}, {}, FALSE)
    ELSE LcResult(st, {"user_email", "company_name"}, {}, TRUE)

\* the tools whose answer goes back to the agent, and those declared with
\* return_direct=True, whose answer ends the run
ToolCalls(st) ==
    search_company_sites(st)
    \cup { select_url(st, n) : n \in {NoNumber, 1, 2, 3} }
    \cup { analyze_content(st) }
DirectToolCalls(st) == { lc_scrape_website(st), send_to_n8n(st) }

\* r followed by the tool call t
Then(r, t) ==
    LcResult(t.st, r.read \cup t.read, r.wrote \cup t.wrote, r.reset \/ t.reset)

\* agent.run: the tools the agent chooses to call, one after the other
RECURSIVE agent_run(_, _)
agent_run(r, n) ==
    IF n = 0 THEN {r}
    ELSE {r} \cup { Then(r, t) : t \in DirectToolCalls(r.st) }
             \cup UNION { agent_run(Then(r, t), n - 1) : t \in ToolCalls(r.st) }

run_agent_logic(st, user_message) ==
    IF HasAtAndDot(user_message)
    THEN { LcResult([st EXCEPT !.user_email = Strip(user_message)],
                    {}, {"user_email"}, FALSE) }
    ELSE IF st.company_name = None
    THEN { IF orgs # <<>>
           THEN LcResult([st EXCEPT !.company_name = orgs[1]],
                         {"company_name"}, {"company_name"}, FALSE)
           ELSE LcResult(st, {"company_name"}, {}, FALSE)
           : orgs \in extract_company_name(user_message) }
    ELSE agent_run(LcResult(st, {"company_name"}, {}, FALSE), MaxToolCalls)

\* ----------------------------------------------------------------------
\* WebScraper._crawl_website: start of the job and the polling loop
\* ----------------------------------------------------------------------
max_wait == 120
poll_interval == 5

\* cap of the poll counter, beyond what the loop can reach
MaxPolls == 30

\* requests.post to /crawl: an exception, a status other than 200, a body
\* without 'id', or the id of the job
StartOutcomes == {"exception", "not_200", "no_job_id", "job_id"}

\* requests.get of the job: an exception, a status other than 200, or the
\* body's 'status' with its 'data'
StatusOutcomes ==
    { [kind |-> k, data |-> <<>>]
        : k \in {"exception", "not_200", "failed", "scraping", "unknown"} }
    \cup { [kind |-> "completed", data |-> o.data]
             : o \in {c \in CrawlOutcomes : ~c.none} }

NoResponse == [kind |-> "", data |-> <<>>]
ReturnsNone == [none |-> TRUE, data |-> <<>>]

\* _crawl_website before its first statement
crawl_start ==
    [ pc |-> "start", wait_time |-> 0, polls |-> 0, last |-> NoResponse,
      result |-> ReturnsNone ]

\* lines 110-132: the job is started
start_crawl(c, started) ==
    IF started = "job_id" THEN [c EXCEPT !.pc = "polling"]
    ELSE [c EXCEPT !.pc = "done", !.result = ReturnsNone]

\* the pass without wait_time += 5
poll_without_wait(c, response) ==
    LET c1 == [c EXCEPT !.polls = @ + 1, !.last = response]
    IN  IF response.kind = "completed"
        THEN [c1 EXCEPT !.pc = "done",
                        !.result = [none |-> FALSE, data |-> response.data]]
        ELSE IF response.kind \in {"failed", "not_200", "exception"}
        THEN [c1 EXCEPT !.pc = "done", !.result = ReturnsNone]
        ELSE c1

\* one pass of the body of the while loop, lines 135-156
poll(c, response) ==
    LET c1 == [c EXCEPT !.wait_time = @ + poll_interval, !.polls = @ + 1,
                        !.last = response]
    IN  IF response.kind = "completed"
        THEN [c1 EXCEPT !.pc = "done",
                        !.result = [none |-> FALSE, data |-> response.data]]
        ELSE IF response.kind \in {"failed", "not_200", "exception"}
        THEN [c1 EXCEPT !.pc = "done", !.result = ReturnsNone]
        ELSE c1

\* ----------------------------------------------------------------------
\* State, initial state and steps
\* ----------------------------------------------------------------------
VARIABLES
    session_state,  \* st.session_state: the research fields of the session
    chat_history,   \* st.session_state.chat_history
    returned,       \* type of what the last process_message call returned
    raised,         \* whether the last process_message call raised instead
    published,      \* _finalize_research ran since the session was last reset
    call,           \* the last call of an adapter method: name, input, result
    lc_session_state,  \* the dict session_state of utils/langchain_agent
    lc_writer,      \* for each key of that dict, the conversation that wrote it
    crawl,          \* the call of _crawl_website under way: where it is, its
                    \* wait_time, the polls made, the last answer, its result
    searched_for    \* the company whose search stored the candidate_urls
                    \* the session holds (kept track of in SpecTracked only)

vars == <<session_state, chat_history, returned, raised, published,
          call, lc_session_state, lc_writer, crawl, searched_for>>

\* no adapter method called yet; no conversation has written a key
NoCall == [fn |-> "", arg |-> <<>>, out |-> <<>>]
Nobody == "nobody"

Init ==
    /\ session_state = session_defaults
    /\ chat_history = <<Greeting>>
    /\ returned = NoReply.type
    /\ raised = FALSE
    /\ published = FALSE
    /\ call = NoCall
    /\ lc_session_state = lc_session_defaults
    /\ lc_writer = [f \in LcFields |-> Nobody]
    /\ crawl = crawl_start
    /\ searched_for = None

\* the calls among cs of the given adapter operation
CallsOf(cs, op) == {i \in 1..Len(cs) : cs[i].op = op}
SinkCalls(cs) == Cardinality(CallsOf(cs, "create_record"))

\* everything process_message can do with the message in the current session
OutcomesOf(user_message, llm) ==
    process_message(World(session_state, chat_history, <<>>), user_message, llm)

\* everything a call of process_message can do in the current session
Outcomes ==
    UNION { OutcomesOf(user_message, llm)
            : user_message \in Messages, llm \in LLMOutcomes }

\* The company the stored candidate_urls were searched for, after a turn: the
\* company of the turn's search when that search stored its list, nobody
\* after reset_session, and as before otherwise.
SearchedFor(r) ==
    IF r.reply.type = "dict"
    THEN r.w.calls[CHOOSE i \in CallsOf(r.w.calls, "search") : TRUE].arg
    ELSE IF r.reply = Text("session_reset") THEN None
    ELSE searched_for

\* One call of process_message: any message, any answer of the collaborators.
ProcessMessage ==
    \E r \in Outcomes :
        /\ session_state' = r.w.st
        /\ chat_history' = r.w.chat
        /\ returned' = r.reply.type
        /\ raised' = r.exc
        /\ published' = IF r.reply = Text("session_reset") THEN FALSE
                        ELSE published \/ SinkCalls(r.w.calls) > 0
        /\ UNCHANGED <<call, lc_session_state, lc_writer, crawl, searched_for>>

Next == ProcessMessage

Spec == Init /\ [][Next]_vars

\* ---- the same calls, with the company of the stored list kept track of ----
ProcessMessageTracked ==
    \E r \in Outcomes :
        /\ session_state' = r.w.st
        /\ chat_history' = r.w.chat
        /\ returned' = r.reply.type
        /\ raised' = r.exc
        /\ published' = IF r.reply = Text("session_reset") THEN FALSE
                        ELSE published \/ SinkCalls(r.w.calls) > 0
        /\ searched_for' = SearchedFor(r)
        /\ UNCHANGED <<call, lc_session_state, lc_writer, crawl>>

NextTracked == ProcessMessageTracked

SpecTracked == Init /\ [][NextTracked]_vars

\* ---- the adapters on their own: each method called with any input ----
AnalyzeCompanyContent ==
    \E response \in Responses :
        /\ call' = [fn |-> "analyze_company_content", arg |-> response,
                    out |-> analyze_company_content(response)]
        /\ UNCHANGED <<session_state, chat_history, returned, raised, published,
                       lc_session_state, lc_writer, crawl, searched_for>>

SendData ==
    \E webhook_url \in WebhookURLs, post \in PostOutcomes :
        /\ call' = [fn |-> "send_data",
                    arg |-> [webhook_url |-> webhook_url, post |-> post],
                    out |-> send_data(webhook_url, post)]
        /\ UNCHANGED <<session_state, chat_history, returned, raised, published,
                       lc_session_state, lc_writer, crawl, searched_for>>

ScrapeWebsite ==
    \E url \in URLs, crawl_result \in CrawlOutcomes, single \in SingleOutcomes :
        /\ call' = [fn |-> "scrape_website",
                    arg |-> [url |-> url, crawl |-> crawl_result, single |-> single],
                    out |-> scrape_website(url, crawl_result, single)]
        /\ UNCHANGED <<session_state, chat_history, returned, raised, published,
                       lc_session_state, lc_writer, crawl, searched_for>>

Search ==
    \E providers \in SearchProviders, o \in SearchOutcomes :
        /\ call' = [fn |-> "search", arg |-> o, out |-> search(providers, o)]
        /\ UNCHANGED <<session_state, chat_history, returned, raised, published,
                       lc_session_state, lc_writer, crawl, searched_for>>

GenerateResponse ==
    \E providers \in LLMProviders, o \in CompletionOutcomes :
        /\ call' = [fn |-> "generate_response", arg |-> o,
                    out |-> generate_response(providers, o)]
        /\ UNCHANGED <<session_state, chat_history, returned, raised, published,
                       lc_session_state, lc_writer, crawl, searched_for>>

AnalyzeWebsite ==
    \E clicked \in BOOLEAN, company_name \in CompanyInputs,
       user_email \in EmailInputs, website_url \in WebsiteOutcomes,
       content \in ContentOutcomes, analysis \in OneShotAnalyses,
       post \in AirtablePosts, sent \in SendGridOutcomes :
        /\ call' = [fn |-> "analyze_website",
                    arg |-> [clicked |-> clicked, company_name |-> company_name,
                             user_email |-> user_email, website_url |-> website_url,
                             content |-> content, analysis |-> analysis],
                    out |-> analyze_website(clicked, company_name, user_email,
                                            website_url, content, analysis,
                                            post, sent)]
        /\ UNCHANGED <<session_state, chat_history, returned, raised, published,
                       lc_session_state, lc_writer, crawl, searched_for>>

NextAdapters ==
    \/ AnalyzeCompanyContent \/ SendData \/ ScrapeWebsite \/ Search
    \/ GenerateResponse \/ AnalyzeWebsite

SpecAdapters == Init /\ [][NextAdapters]_vars

\* ---- the chat log: update_chat between the calls of process_message ----
\* most entries update_chat appends
MaxChat == 1

update_chat(w, role, message, urls) ==
    [w EXCEPT !.chat = Append(@, IF urls # <<>>
                                 THEN [role |-> role, content |-> message, urls |-> urls]
                                 ELSE [role |-> role, content |-> message])]

UpdateChat ==
    /\ Len(chat_history) < 1 + MaxChat
    /\ \E entry \in { [role |-> "user", urls |-> <<>>],
                      [role |-> "assistant", urls |-> <<"https://acme.com">>] } :
          chat_history' = update_chat(World(session_state, chat_history, <<>>),
                                      entry.role, "text", entry.urls).chat
    /\ UNCHANGED <<session_state, returned, raised, published,
                   call, lc_session_state, lc_writer, crawl, searched_for>>

NextChat == ProcessMessage \/ UpdateChat

SpecChat == Init /\ [][NextChat]_vars

\* ---- two conversations served by the one langchain agent ----
Conversations == {"A", "B"}

\* everything run_agent_logic can do with a message and the dict as it is
LcOutcomes ==
    UNION { run_agent_logic(lc_session_state, user_message)
            : user_message \in Messages }

RunAgentLogic ==
    \E conversation \in Conversations, r \in LcOutcomes :
        /\ lc_session_state' = r.st
        /\ lc_writer' = [f \in LcFields |->
                           IF f \in r.wrote THEN conversation ELSE lc_writer[f]]
        /\ LET w == World(session_state, chat_history, <<>>)
               after == IF r.reset THEN reset_session(w) ELSE w
           IN  /\ session_state' = after.st
               /\ chat_history' = after.chat
        /\ UNCHANGED <<returned, raised, published, call, crawl,
                       searched_for>>

NextLangchain == RunAgentLogic

SpecLangchain == Init /\ [][NextLangchain]_vars

\* ---- one call of _crawl_website, statement by statement ----
Others == <<session_state, chat_history, returned, raised, published,
            call, lc_session_state, lc_writer, searched_for>>

StartCrawl ==
    /\ crawl.pc = "start"
    /\ \E started \in StartOutcomes : crawl' = start_crawl(crawl, started)
    /\ UNCHANGED Others

\* while wait_time < max_wait: sleep, then ask for the job's status
Poll ==
    /\ crawl.pc = "polling"
    /\ crawl.wait_time < max_wait
    /\ crawl.polls < MaxPolls
    /\ \E response \in StatusOutcomes : crawl' = poll(crawl, response)
    /\ UNCHANGED Others

\* the loop is left: "Crawl job timed out"
TimeOut ==
    /\ crawl.pc = "polling"
    /\ ~(crawl.wait_time < max_wait)
    /\ crawl' = [crawl EXCEPT !.pc = "done", !.result = ReturnsNone]
    /\ UNCHANGED Others

NextCrawl == StartCrawl \/ Poll \/ TimeOut

SpecCrawl == Init /\ [][NextCrawl]_vars

\* the call runs on: sleep returns and each request has a timeout
FairSpecCrawl == SpecCrawl /\ WF_vars(NextCrawl)

\* ----------------------------------------------------------------------
\* Properties
\* ----------------------------------------------------------------------
\* the message reads "start over", in any letter case
Lower(word) == CASE word = "Start" -> "start" [] OTHER -> word
IsStartOver(message) ==
    Len(message) = 2 /\ Lower(message[1]) = "start" /\ Lower(message[2]) = "over"

\* the extractor answers an intent of the given action that the LLM produced
LLMSays(action, company, email) ==
    [failed |-> FALSE, value |-> Intent(action, company, email, NoNumber)]

\* C1: once _finalize_research has run for the current research, no call of
\* process_message makes another sink call (create_record) before the session
\* is reset by start over.
PublishOnce ==
    published => \A r \in Outcomes : SinkCalls(r.w.calls) = 0

\* C2: agent_state = awaiting_url_selection implies candidate_urls is not
\* empty, and a search that finds no URL or raises does not leave the session
\* in awaiting_url_selection.
AwaitingSelectionHasCandidates ==
    /\ session_state.agent_state = STATES.AWAITING_URL_SELECTION
         => session_state.candidate_urls # <<>>
    /\ \A r \in Outcomes :
         (CallsOf(r.w.calls, "search") # {} /\ r.reply.type = "text")
           => r.w.st.agent_state # STATES.AWAITING_URL_SELECTION

\* C2, witness: a search has found URLs and the session awaits the selection.
AwaitingSelectionReached ==
    /\ session_state.agent_state = STATES.AWAITING_URL_SELECTION
    /\ session_state.current_status = "found_candidate_urls"
    /\ Len(session_state.candidate_urls) = 2
    /\ returned = "dict"

\* C3: in every agent state a message that reads "start over" resets the
\* session to its initial state with the research fields cleared, with the
\* intent of the LLM extractor and with the intent of the fallback extractor.
StartOverResets ==
    \A user_message \in Messages :
        IsStartOver(user_message) =>
            \A llm \in {LLMFailed, LLMSays("start_over", Absent, Absent)} :
                \A r \in OutcomesOf(user_message, llm) :
                    r.w.st = session_defaults

\* C4: every call of process_message returns a reply, a text or a record
\* with URLs, and raises nothing.
AlwaysReplies ==
    [][ raised' = FALSE /\ returned' \in {"text", "dict"} ]_vars

\* C4, witness: a call whose intent lacked a field ended in the except branch
\* and returned its error text.
ErrorReplyReached ==
    /\ session_state.current_status = "error"
    /\ raised = FALSE
    /\ returned = "text"

\* C5: the web search is called only with a company that is not None.
SearchNeedsCompany ==
    \A r \in Outcomes :
        \A i \in CallsOf(r.w.calls, "search") : r.w.calls[i].arg # None

\* C6: while awaiting the URL selection, a message that is the integer k with
\* 1 <= k <= n stores confirmed_url = u_k and scrapes u_k in the same turn,
\* with either extractor, and leaves company_name as it was.
NumericSelection ==
    session_state.agent_state = STATES.AWAITING_URL_SELECTION =>
        \A user_message \in Messages :
            ( /\ Len(user_message) = 1
              /\ user_message[1] \in NumberWords
              /\ IntOf(user_message[1]) \in 1..Len(session_state.candidate_urls) )
            => \A llm \in {LLMFailed, LLMSays("select_url", Absent, Absent)} :
                 \A r \in OutcomesOf(user_message, llm) :
                    LET u == session_state.candidate_urls[IntOf(user_message[1])]
                    IN  /\ r.w.st.confirmed_url = u
                        /\ \E i \in CallsOf(r.w.calls, "scrape") : r.w.calls[i].arg = u
                        /\ r.w.st.company_name = session_state.company_name

\* C7: a first message with a company phrase and an email stores company_name
\* and user_email and searches for that company in the same turn, with either
\* extractor.
ScenarioA == <<"Research", "Acme", "Corp,", "email", "me", "at", "a@b.com">>
CombinedExtraction ==
    session_state = session_defaults =>
        \A llm \in {LLMFailed, LLMSays("provide_company_and_email", "Acme Corp", "a@b.com")} :
            \A r \in OutcomesOf(ScenarioA, llm) :
                /\ r.w.st.company_name = "Acme Corp"
                /\ r.w.st.user_email = "a@b.com"
                /\ \E i \in CallsOf(r.w.calls, "search") : r.w.calls[i].arg = "Acme Corp"

\* C8: when the search finds no URL or fails, the reply asks for a different
\* company name or a direct URL and the session is left in a pre-search state,
\* neither searching_urls nor awaiting_url_selection.
EmptySearchStaysPreSearch ==
    \A r \in Outcomes :
        (CallsOf(r.w.calls, "search") # {} /\ r.reply.type = "text")
          => /\ r.reply = Text("no_websites_try_different_company")
             /\ r.w.st.agent_state
                  \in {STATES.INITIAL, STATES.AWAITING_COMPANY, STATES.AWAITING_EMAIL}

\* C9: scraped content below the minimum length (40 characters for one) is a
\* scrape failure: it is neither analysed nor published, the analysis fields
\* are set only with content above that length.
MinimumContent ==
    /\ \A r \in Outcomes :
         \A i \in CallsOf(r.w.calls, "analyze") \cup CallsOf(r.w.calls, "create_record") :
            r.w.calls[i].len > 40
    /\ session_state.what_they_sell # None => session_state.scraped_content > 40

\* C10: when the scrape of the selected URL gives nothing, the session is in
\* awaiting_url_selection after the turn with the same candidate_urls, no
\* content or analysis stored, no sink call made, and the reply asks for
\* another URL.
ScrapeFailureStays ==
    \A r \in Outcomes :
        ( /\ CallsOf(r.w.calls, "scrape") # {}
          /\ CallsOf(r.w.calls, "analyze") = {} )
        => /\ r.reply = Text("could_not_scrape_select_different_url")
           /\ r.w.st.agent_state = STATES.AWAITING_URL_SELECTION
           /\ r.w.st.candidate_urls = session_state.candidate_urls
           /\ r.w.st.scraped_content = session_state.scraped_content
           /\ r.w.st.what_they_sell = session_state.what_they_sell
           /\ r.w.st.who_they_sell_to = session_state.who_they_sell_to
           /\ SinkCalls(r.w.calls) = 0

\* the completion has none of the two section headers
PlainProse(analysis) ==
    analysis # <<>> /\ \A i \in 1..Len(analysis) : analysis[i].head = ""

\* C11: when the summarizer answers plain prose with no JSON and no section
\* header, every analysis field of the session is set to a non-empty sentinel
\* text, and the turn still reaches answering_followup and makes the sink
\* call.
UnstructuredGivesSentinels ==
    \A r \in Outcomes :
        ( /\ r.reply.text = "research_complete_saved_and_emailed"
          /\ PlainProse(r.reply.analysis) )
        => /\ r.w.st.what_they_sell \notin {None, ""}
           /\ r.w.st.who_they_sell_to \notin {None, ""}
           /\ r.w.st.agent_state = STATES.ANSWERING_FOLLOWUP
           /\ SinkCalls(r.w.calls) = 1

\* C12: whatever the completion is, analyze_company_content returns a dict in
\* which what_they_sell, who_they_target and condensed_summary are all present
\* and hold a non-empty text.
AllKeysPopulated ==
    call.fn = "analyze_company_content"
      => /\ call.out.type = "dict"
         /\ \A k \in AnalysisKeys : call.out[k] \notin {Absent, ""}

\* the sink step of the turn failed: create_record raised or returned no id
\* (no email was sent), or the email send raised
SinkFailed(r) ==
    /\ CallsOf(r.w.calls, "create_record") # {}
    /\ \/ CallsOf(r.w.calls, "send_email") = {}
       \/ r.w.st.current_status = "error_in_final_steps"

\* C13: when the sink step of _finalize_research fails, the turn still ends in
\* answering_followup with the analysis shown, and the reply does not state
\* that the research was saved and emailed.
PublishFailureWarns ==
    \A r \in Outcomes :
        SinkFailed(r)
          => /\ r.w.st.agent_state = STATES.ANSWERING_FOLLOWUP
             /\ r.reply.analysis # <<>>
             /\ r.reply.text # "research_complete_saved_and_emailed"

\* C14: send_data never raises; it returns False with no request sent when no
\* webhook URL is configured, False on a timeout, a transport error and a
\* status outside 200..299, and True on every status in 200..299.
SendDataBoolean ==
    call.fn = "send_data"
      => /\ ~call.out.raised
         /\ call.arg.webhook_url = None => (~call.out.value /\ call.out.posts = 0)
         /\ call.arg.webhook_url # None =>
              ( call.out.value <=> /\ call.arg.post.raises = None
                                   /\ call.arg.post.status_code \in 200..299 )

\* C15: a turn of one conversation neither reads nor writes a key of the
\* langchain agent's session that the other conversation wrote.
SessionIsolation ==
    \A conversation \in Conversations :
        \A r \in LcOutcomes :
            \A f \in r.read \cup r.wrote :
                lc_writer[f] \in {Nobody, conversation}

\* C16: no step removes or changes an entry of chat_history: the log before
\* the step is a prefix of the log after it, a start-over reset included.
ChatAppendOnly ==
    [][ /\ Len(chat_history') >= Len(chat_history)
        /\ SubSeq(chat_history', 1, Len(chat_history)) = chat_history ]_vars

\* C17: once company_name is set, no call of process_message other than the
\* start-over reset changes it, in any agent state and for any intent.
CompanyNameImmutable ==
    session_state.company_name # None
      => \A r \in Outcomes :
            r.reply # Text("session_reset")
              => r.w.st.company_name = session_state.company_name

\* messages that name the URL u, alone and next to a number
DirectUrlMessages(u) ==
    { <<u>>, <<"please", "use", u, "instead", "of", "number", "1">> }

\* C18: while the agent awaits the URL selection, a message that holds one of
\* the candidate URLs or any other http(s) URL makes that URL the
\* confirmed_url, also when the message holds a number.
DirectUrlOverride ==
    session_state.agent_state = STATES.AWAITING_URL_SELECTION
      => \A u \in URLs \cup {"https://other.example"} :
           \A message \in DirectUrlMessages(u) :
             \A llm \in {LLMFailed, LLMSays("select_url", Absent, Absent)} :
               \A r \in OutcomesOf(message, llm) :
                  r.w.st.confirmed_url = u

\* C19: in answering_followup every message other than "start over" is
\* answered by _handle_followup_question from the scraped content, and no
\* session field changes, whether the LLM extractor or the fallback ran.
FollowupAlwaysAnswered ==
    session_state.agent_state = STATES.ANSWERING_FOLLOWUP
      => \A message \in Messages :
           ~IsStartOver(message)
             => \A llm \in {LLMFailed, LLMSays("ask_followup", Absent, Absent)} :
                  \A r \in OutcomesOf(message, llm) :
                     /\ r.w.st = session_state
                     /\ CallsOf(r.w.calls, "answer") # {}

\* the values agent_state can take
AgentStates ==
    { STATES.INITIAL, STATES.AWAITING_COMPANY, STATES.AWAITING_EMAIL,
      STATES.SEARCHING_URLS, STATES.AWAITING_URL_SELECTION,
      STATES.SCRAPING_WEBSITE, STATES.ANALYZING_CONTENT,
      STATES.ANSWERING_FOLLOWUP, STATES.UPDATING_AIRTABLE,
      STATES.SENDING_EMAIL, STATES.COMPLETE }

\* the message has no integer, or one outside 1..len(candidate_urls)
NoValidSelection(message) ==
    LET number_match == FirstIn(message, NumberWords)
    IN  \/ number_match = None
        \/ IntOf(number_match) \notin 1..Len(session_state.candidate_urls)

\* C20: _handle_url_selection with a message that has no integer or one out
\* of range, and _handle_unclear_input in any state, only return a prompt:
\* every session field and the chat log are as before and no adapter is
\* called.
RepromptLeavesSession ==
    LET w == World(session_state, chat_history, <<>>)
    IN  \A message \in Messages :
          /\ NoValidSelection(message)
               => \A r \in _handle_url_selection(w, message) :
                     r.w = w /\ ~r.exc /\ r.reply.type = "text"
          /\ \A current_state \in AgentStates :
               \A r \in _handle_unclear_input(w, message, current_state) :
                  r.w = w /\ ~r.exc /\ r.reply.type = "text"

\* a turn has re-prompted for the number: the session still awaits the
\* selection with the candidates the search stored, and an out-of-range
\* number is among the messages it can get
RepromptReached ==
    /\ session_state.agent_state = STATES.AWAITING_URL_SELECTION
    /\ session_state.current_status = "found_candidate_urls"
    /\ returned = "text"
    /\ \E message \in Messages :
         /\ FirstIn(message, NumberWords) # None
         /\ NoValidSelection(message)

\* C24: _crawl_website polls every 5 seconds and at most 24 times; an answer
\* other than completed or failed keeps it polling, completed returns the
\* pages of the job, and failed, a status other than 200, an exception or the
\* end of the wait return None; every call comes to its return.
CrawlPollingTerminates ==
    /\ [] /\ crawl.polls <= 24
          /\ crawl.wait_time = 5 * crawl.polls
          /\ (crawl.pc = "polling" /\ crawl.polls > 0)
               => crawl.last.kind \notin {"completed", "failed", "not_200", "exception"}
          /\ crawl.pc = "done"
               => IF crawl.last.kind = "completed"
                  THEN crawl.result = [none |-> FALSE, data |-> crawl.last.data]
                  ELSE crawl.result = ReturnsNone
    /\ <>(crawl.pc = "done")

\* the wait was used up: 24 polls found the job still running
CrawlTimedOut ==
    /\ crawl.pc = "done"
    /\ crawl.polls = 24
    /\ crawl.wait_time = max_wait
    /\ crawl.last.kind = "scraping"
    /\ crawl.result = ReturnsNone

\* the crawl gave no page with text: it returned None, or every page has a
\* markdown that is blank, missing or null
NoUsablePage(crawl_result) ==
    \/ crawl_result.none
    \/ \A i \in 1..Len(crawl_result.data) :
          crawl_result.data[i].blank \/ crawl_result.data[i].markdown = NoneLen

\* C25: for every crawl outcome without usable page text, scrape_website
\* returns what the single-page scrape of the URL returns, so it returns None
\* only when the single-page scrape yields nothing too.
TwoTierScrape ==
    call.fn = "scrape_website"
      => LET single_page == _scrape_single_page(call.arg.url, call.arg.single)
         IN  /\ NoUsablePage(call.arg.crawl) => call.out = single_page
             /\ call.out = NoneLen => single_page = NoneLen

\* C26: search and generate_response return the result of the first provider
\* that gives a non-empty one; a provider that raises or gives an empty
\* result is passed over, and with no provider left the call returns [] (the
\* apology text for the LLM); no exception leaves either call.
ProviderFallback ==
    /\ call.fn = "search"
         => /\ ~call.out.raised
            /\ call.out.value =
                 IF call.arg.raised \/ call.arg.organic = <<>> THEN <<>>
                 ELSE _search_serper(call.arg).value
    /\ call.fn = "generate_response"
         => /\ ~call.out.raised
            /\ call.out.value =
                 IF call.arg.raised \/ call.arg.value = "" THEN Apology[1].text
                 ELSE call.arg.value

\* the one search provider raised and search returned the empty list
SearchProviderFailed ==
    /\ call.fn = "search"
    /\ call.arg.raised
    /\ call.out = Returned(<<>>)

\* the calls of the turn are one scrape, then one analysis, then one sink call
ScrapeAnalyzePublish(cs) ==
    /\ Cardinality(CallsOf(cs, "scrape")) = 1
    /\ Cardinality(CallsOf(cs, "analyze")) = 1
    /\ Cardinality(CallsOf(cs, "create_record")) = 1
    /\ \A i \in CallsOf(cs, "scrape"), j \in CallsOf(cs, "analyze"),
          k \in CallsOf(cs, "create_record") : i < j /\ j < k

\* C21: a turn that takes the session into answering_followup, and every turn
\* that makes a sink call, has scraped content, stored it, then analysed it
\* and stored the analysis, and then made exactly one sink call.
OrderedResearchTurn ==
    \A user_message \in Messages, llm \in LLMOutcomes :
        \A r \in OutcomesOf(user_message, llm) :
            ( \/ /\ r.w.st.agent_state = STATES.ANSWERING_FOLLOWUP
                 /\ session_state.agent_state # STATES.ANSWERING_FOLLOWUP
              \/ CallsOf(r.w.calls, "create_record") # {} )
            => /\ ScrapeAnalyzePublish(r.w.calls)
               /\ Truthy(r.w.st.scraped_content)
               /\ \A j \in CallsOf(r.w.calls, "analyze") :
                     r.w.calls[j].len = Prefix(r.w.st.scraped_content, AnalysisLimit)
               /\ r.w.st.what_they_sell # None
               /\ r.w.st.who_they_sell_to # None
               /\ r.w.st.agent_state = STATES.ANSWERING_FOLLOWUP
               /\ r.reply.analysis # <<>>

\* a research turn has just ended: analysed, published once, now answering
ResearchTurnDone ==
    /\ session_state.agent_state = STATES.ANSWERING_FOLLOWUP
    /\ session_state.current_status = "analysis_complete"
    /\ session_state.airtable_record_id # None
    /\ published
    /\ returned = "text"

\* C22: when process_message has returned, agent_state is none of
\* searching_urls, scraping_website and analyzing_content.
TransientNeverObservable ==
    returned # NoReply.type
      => session_state.agent_state
           \notin { STATES.SEARCHING_URLS, STATES.SCRAPING_WEBSITE,
                    STATES.ANALYZING_CONTENT }

\* the LLM intent call failed, or gave JSON without a usable action
UnusableLLMOutcomes ==
    { LLMFailed,
      [failed |-> FALSE, value |-> NotADict],
      [failed |-> FALSE, value |-> Intent(Absent, Absent, Absent, NoNumber)] }

\* C23: whenever the LLM intent call fails or gives no usable action, the
\* turn does what it does with the intent of _fallback_intent_analysis, and
\* its reply is not the error message.
ExtractorFallback ==
    \A user_message \in Messages, llm \in UnusableLLMOutcomes :
        /\ OutcomesOf(user_message, llm) = OutcomesOf(user_message, LLMFailed)
        /\ \A r \in OutcomesOf(user_message, llm) :
              r.reply # Text("encountered_an_error")

\* no URL is twice in the list
NoUrlTwice(urls) ==
    \A i \in 1..Len(urls), j \in 1..Len(urls) : i # j => urls[i] # urls[j]

\* C27: the candidate URLs a search stores in the session are at most 5, in
\* the order of the provider's ranking, and no URL is among them twice.
CandidateListShape ==
    /\ Len(session_state.candidate_urls) <= 5
    /\ NoUrlTwice(session_state.candidate_urls)
    /\ \A user_message \in Messages, llm \in LLMOutcomes :
         \A r \in OutcomesOf(user_message, llm) :
            CallsOf(r.w.calls, "search") # {}
              => \E o \in SearchOutcomes :
                    /\ ~o.raised
                    /\ r.w.st.candidate_urls \in {session_state.candidate_urls,
                                                  Links(o.organic)}

\* C28: a completion that is a line of prose followed by a valid JSON object
\* with the three keys gives the three fields of that object.
BraceScanTier ==
    ( /\ call.fn = "analyze_company_content"
      /\ Len(call.arg) > 1
      /\ call.arg[1].kind = "prose"
      /\ IsJson(Tail(call.arg))
      /\ \A k \in AnalysisKeys : json_loads(Tail(call.arg))[k] \notin {Absent, ""} )
    => call.out = json_loads(Tail(call.arg))

\* the lengths of content a scrape can store
ContentLens ==
    { n \in UNION { ScrapeResults(url) : url \in URLs } : Truthy(n) }

\* C29: the analysis prompt gets the first 15000 characters of the content,
\* a follow-up prompt the first 10000 and the sink record the first 50000
\* (all of it when it is shorter), and scraped_content stays as stored.
TruncationAtUse ==
    LET w == World(session_state, chat_history, <<>>)
    IN  /\ \A r \in _handle_followup_question(w, <<"question">>) :
             /\ r.w.st.scraped_content = session_state.scraped_content
             /\ \A i \in CallsOf(r.w.calls, "answer") :
                   r.w.calls[i].len = Min(session_state.scraped_content, 10000)
        /\ \A content \in ContentLens :
             \A r \in _analyze_content(
                        update_session_state(w, "scraped_content", content), content) :
                /\ r.w.st.scraped_content = content
                /\ \A i \in CallsOf(r.w.calls, "analyze") :
                      r.w.calls[i].len = Min(content, 15000)
                /\ \A i \in CallsOf(r.w.calls, "create_record") :
                      r.w.calls[i].len = Min(content, 50000)

\* content longer than every limit is stored and follow-ups are answered
LongContentStored ==
    /\ session_state.scraped_content > 50000
    /\ session_state.agent_state = STATES.ANSWERING_FOLLOWUP
    /\ published

\* C30: once send_to_n8n has posted to the webhook, company_name, user_email,
\* confirmed_url and candidate_urls of the langchain agent's session are back
\* to their initial values.
ResetAfterSend ==
    \A r \in LcOutcomes : r.reset => r.st = lc_session_defaults

\* C34: the company_name of every record handed to the sink is the company
\* whose search produced the candidate list the scraped URL was taken from.
RecordSelfConsistent ==
    \A user_message \in Messages, llm \in LLMOutcomes :
        \A r \in OutcomesOf(user_message, llm) :
            \A i \in CallsOf(r.w.calls, "create_record") :
                r.w.calls[i].arg = searched_for

\* the steps named a and b are both among steps, a before b
InOrder(steps, a, b) ==
    \E i \in 1..Len(steps), j \in 1..Len(steps) :
        i < j /\ steps[i] = a /\ steps[j] = b

\* C31: in the one-shot flow, when the search finds a website, the crawl
\* returns non-empty content and the analysis returns, the result is posted
\* to Airtable and then the email is sent; when no website is found or the
\* crawl returns nothing, neither is attempted.
OneShotSaveThenEmail ==
    call.fn = "analyze_website"
      => LET steps == call.out.steps
             attempted(a) == \E i \in 1..Len(steps) : steps[i] = a
         IN  /\ ( /\ call.arg.clicked
                  /\ call.arg.company_name # ""
                  /\ call.arg.user_email # ""
                  /\ call.arg.website_url # None
                  /\ Truthy(call.arg.content)
                  /\ call.arg.analysis # "empty_object" )
                => /\ InOrder(steps, "airtable_post", "send_email")
                   /\ ~call.out.raised
             /\ (call.arg.website_url = None \/ ~Truthy(call.arg.content))
                => ~attempted("airtable_post") /\ ~attempted("send_email")

\* C32: whatever the session holds, after reset_session get_session_state
\* is what it is right after init_session on an empty session: agent_state
\* "initial", candidate_urls empty, every other research field None.
ResetRestoresInit ==
    LET w == World(session_state, chat_history, <<>>)
    IN  /\ get_session_state(reset_session(w).st)
             = get_session_state(init_session(EmptySession))
        /\ reset_session(w).st.agent_state = "initial"
        /\ reset_session(w).st.candidate_urls = <<>>
        /\ \A key \in session_keys \ {"agent_state", "candidate_urls", "scraped_content"} :
              reset_session(w).st[key] = None
        /\ reset_session(w).st.scraped_content = NoneLen

\* a finished research, with every research field set, that a "start over"
\* turn resets
ResetOfFinishedResearch ==
    /\ session_state.agent_state = STATES.ANSWERING_FOLLOWUP
    /\ session_state.airtable_record_id # None
    /\ session_state.what_they_sell # None
    /\ session_state.confirmed_url # None
    /\ session_state.current_status # None
    /\ \E r \in OutcomesOf(<<"Start", "over">>, LLMSays("start_over", Absent, Absent)) :
          r.reply = Text("session_reset") /\ r.w.st = session_defaults

\* C33: whenever confirmed_url is not None it is one of the session's
\* current candidate_urls.
ConfirmedUrlIsCandidate ==
    session_state.confirmed_url # None
      => \E i \in 1..Len(session_state.candidate_urls) :
            session_state.candidate_urls[i] = session_state.confirmed_url

\* get_research_progress: bool() of each field
get_research_progress(session_data) ==
    [ company_identified |-> session_data.company_name \notin {None, ""},
      email_provided |-> session_data.user_email \notin {None, ""},
      urls_found |-> session_data.candidate_urls # <<>>,
      url_confirmed |-> session_data.confirmed_url \notin {None, ""},
      content_scraped |-> Truthy(session_data.scraped_content),
      analysis_complete |-> session_data.what_they_sell \notin {None, ""},
      airtable_updated |-> session_data.airtable_record_id \notin {None, ""} ]

\* all(progress.values())
is_research_complete(session_data) ==
    \A stage \in DOMAIN get_research_progress(session_data) :
        get_research_progress(session_data)[stage]

\* C35: in every reachable session the stage flags are downward closed, and
\* is_research_complete is true exactly when airtable_updated is.
ProgressDownwardClosed ==
    LET progress == get_research_progress(session_state)
    IN  /\ progress.airtable_updated => progress.analysis_complete
        /\ progress.analysis_complete => progress.content_scraped
        /\ progress.content_scraped => progress.url_confirmed
        /\ progress.url_confirmed => progress.urls_found
        /\ progress.urls_found => progress.email_provided /\ progress.company_identified
        /\ is_research_complete(session_state) <=> progress.airtable_updated

AssignedAgentStates ==
    /\ session_state.agent_state
         \in { STATES.INITIAL, STATES.AWAITING_EMAIL, STATES.SEARCHING_URLS,
               STATES.AWAITING_URL_SELECTION, STATES.SCRAPING_WEBSITE,
               STATES.ANALYZING_CONTENT, STATES.ANSWERING_FOLLOWUP }
    /\ session_state.agent_state
         \notin { STATES.AWAITING_COMPANY, STATES.UPDATING_AIRTABLE,
                  STATES.SENDING_EMAIL, STATES.COMPLETE }

\* a session that went through every handler that assigns agent_state and
\* was then given another company name
SecondResearchBegun ==
    /\ session_state.agent_state = STATES.AWAITING_EMAIL
    /\ session_state.airtable_record_id # None
    /\ session_state.confirmed_url # None

====
